---- MODULE Spec2Model ----
(***************************************************************************)
(* Model of src-tauri/src/main.rs: the Tauri bootstrapper that spawns the  *)
(* bundled Node.js server (start_server), forwards the sidecar's output    *)
(* events to the window console (the monitoring task), polls               *)
(* http://localhost:3000 until it answers, and redirects the window.       *)
(*                                                                         *)
(* start_server keeps all its state in locals, so invocations share        *)
(* nothing; the model runs them one after the other (invocation 1 is the   *)
(* automatic one of setup, later ones are UI commands) and re-initialises  *)
(* the locals at each Invoke.  The sidecars and monitoring tasks of        *)
(* earlier invocations stay alive and keep interleaving with later ones.   *)
(***************************************************************************)
EXTENDS Integers, Sequences, FiniteSets, TLC

(* ------------------------------ bounds -------------------------------- *)

\* number of start_server invocations explored (setup + UI re-invocations)
MaxInvocations == 2

\* total number of output events the sidecars emit while MaxInvocations
\* invocations are explored
MaxEvents == 1

\* number of output events the sidecar emits when a single launch is explored
MaxLaunchEvents == 3

\* the same, where behaviours are checked under fairness
MaxFairEvents == 2

(* ------------------------- program constants -------------------------- *)

max_attempts == 30

NoteEvery == 5

URL == "http://localhost:3000"

\* results of std::env::current_exe(): an error, or an absolute path given
\* as its components (<<>> is the root, which has no parent)
ExeResults ==
    { [ok |-> FALSE, path |-> <<>>],
      [ok |-> TRUE, path |-> <<>>],
      [ok |-> TRUE, path |-> <<"opt", "hyperfy">>] }

\* what can go wrong between the existence check and a running sidecar
SpawnOutcomes == {"ok", "new_sidecar", "to_str", "spawn"}

\* HTTP status codes a probe may receive
Statuses == {200, 404}

\* outcomes of reqwest::get(URL).await
ProbeResults ==
    {[ok |-> FALSE, status |-> 0]} \cup {[ok |-> TRUE, status |-> s] : s \in Statuses}

\* kinds of tauri::api::process::CommandEvent
EventKinds == {"Stdout", "Stderr", "Error", "Terminated"}

Children == 1..MaxInvocations

(* ------------------------------ helpers ------------------------------- *)

\* Path::parent(): None for the root
HasParent(p) == Len(p) > 0

Parent(p) == SubSeq(p, 1, Len(p) - 1)

\* Path::join
Join(p, c) == Append(p, c)

ServerPath(exe) == Join(Join(Join(Parent(exe), "resources"), "build"), "index.js")

\* HashMap::insert
Insert(m, k, v) == [x \in (DOMAIN m) \cup {k} |-> IF x = k THEN v ELSE m[x]]

EmptyMap == [x \in {} |-> ""]

NoResult == [kind |-> "none", msg |-> <<>>]

OkResult == [kind |-> "Ok", msg |-> <<>>]

\* format!("Server file not found at: {:?}", server_path)
NotFoundMsg(p) == <<"Server file not found at: ", p>>

ErrResult(m) == [kind |-> "Err", msg |-> m]

ExistsBranchFallsThrough(e) == "spawn"

\* if !server_path.exists() { return Err(..) }
ExistsBranch(e) == IF e THEN "spawn" ELSE "returned"

\* while attempts < max_attempts
LoopCond(a) == a < max_attempts

\* StatusCode::is_success
IsSuccess(s) == 200 <= s /\ s <= 299

BreaksNever(r) == FALSE

\* Ok(response) if response.status().is_success() => break
Breaks(r) == r.ok /\ IsSuccess(r.status)

NoteDueAlways(r, a) == ~r.ok

\* Err(_) => if attempts % 5 == 0 { println!(..) }
NoteDue(r, a) == ~r.ok /\ a % NoteEvery = 0

\* if attempts >= max_attempts
TimedOut(a) == a >= max_attempts

(* ------------------------------- state -------------------------------- *)

VARIABLES
    inv,          \* number of start_server invocations begun; the current one
    pc,           \* position of the current invocation
    server_path,  \* local server_path (<<>> before it is computed)
    env_vars,     \* local env_vars
    attempts,     \* local attempts
    result,       \* value the current invocation returned (NoResult before)
    fault,        \* the unwrap()/expect() that panicked in this invocation
    pathExists,   \* outcome of server_path.exists(): "unchecked", "yes", "no"
    spawnCalls,   \* Command::spawn() calls of this invocation
    probes,       \* reqwest::get calls of this invocation
    okAt,         \* first attempt whose response was success-range (0: none)
    lastResp,     \* outcome of the latest completed probe
    navs,         \* URLs this invocation told the window to navigate to
    printed,      \* lines the latest step of start_server / setup printed
    alerts,       \* alert(..) scripts evaluated in the window
    handles,      \* child handles created by each invocation (child c belongs to invocation c)
    childEnv,     \* environment each sidecar was given
    emitted,      \* events each sidecar has sent, in emission order
    chan,         \* events in the channel rx, not yet received
    closed,       \* all senders of the channel dropped
    monpc,        \* monitoring task: "none", "recv", "ended"
    monTasks,     \* monitoring tasks spawned for each sidecar
    plog,         \* lines the monitoring task printed
    console       \* scripts the monitoring task evaluated in the window

mainVars ==
    <<inv, pc, server_path, env_vars, attempts, result, fault, pathExists,
      spawnCalls, probes, okAt, lastResp, navs, printed, alerts>>

childVars == <<handles, childEnv, emitted, chan, closed, monpc, monTasks, plog, console>>

vars == <<mainVars, childVars>>

\* the sidecars created so far
spawned == {c \in Children : handles[c] > 0}

BuildEnvPortPerLaunch ==
    Insert(Insert(Insert(Insert(EmptyMap, "NODE_ENV", "production"),
                         "PORT", IF inv = 1 THEN "3000" ELSE "3001"),
                  "WORLD", "world"), "PUBLIC_ASSETS_URL", "")

\* lines 24-28: the environment of the sidecar
BuildEnv ==
    Insert(Insert(Insert(Insert(EmptyMap, "NODE_ENV", "production"),
                         "PORT", "3000"), "WORLD", "world"), "PUBLIC_ASSETS_URL", "")

NoResp == [ok |-> FALSE, status |-> -1]

Init ==
    /\ inv = 0
    /\ pc = "idle"
    /\ server_path = <<>>
    /\ env_vars = EmptyMap
    /\ attempts = 0
    /\ result = NoResult
    /\ fault = "none"
    /\ pathExists = "unchecked"
    /\ spawnCalls = 0
    /\ probes = 0
    /\ okAt = 0
    /\ lastResp = NoResp
    /\ navs = <<>>
    /\ printed = <<>>
    /\ alerts = <<>>
    /\ handles = [c \in Children |-> 0]
    /\ childEnv = [c \in Children |-> EmptyMap]
    /\ emitted = [c \in Children |-> <<>>]
    /\ chan = [c \in Children |-> <<>>]
    /\ closed = [c \in Children |-> FALSE]
    /\ monpc = [c \in Children |-> "none"]
    /\ monTasks = [c \in Children |-> 0]
    /\ plog = [c \in Children |-> <<>>]
    /\ console = [c \in Children |-> <<>>]

(* --------------------------- start_server ----------------------------- *)

\* A new invocation: the setup task's call (the first) or a UI command.
\* All locals are fresh.
Invoke(maxInv) ==
    /\ pc \in {"idle", "done", "panicked"}
    /\ inv < maxInv
    /\ inv' = inv + 1
    /\ pc' = "resolve"
    /\ server_path' = <<>>
    /\ env_vars' = EmptyMap
    /\ attempts' = 0
    /\ result' = NoResult
    /\ fault' = "none"
    /\ pathExists' = "unchecked"
    /\ spawnCalls' = 0
    /\ probes' = 0
    /\ okAt' = 0
    /\ lastResp' = NoResp
    /\ navs' = <<>>
    /\ printed' = <<>>
    /\ UNCHANGED <<alerts, childVars>>

\* lines 15-30: current_exe().unwrap().parent().unwrap().join(..), the
\* environment map, and the "Starting server" line
ResolvePath ==
    /\ pc = "resolve"
    /\ \E exe \in ExeResults :
         IF ~exe.ok
         THEN /\ pc' = "panicked"
              /\ fault' = "current_exe"
              /\ UNCHANGED <<server_path, env_vars, printed>>
         ELSE IF ~HasParent(exe.path)
         THEN /\ pc' = "panicked"
              /\ fault' = "parent"
              /\ UNCHANGED <<server_path, env_vars, printed>>
         ELSE /\ pc' = "exists"
              /\ server_path' = ServerPath(exe.path)
              /\ env_vars' = BuildEnv
              /\ printed' = <<<<"Starting server with path: ", ServerPath(exe.path)>>>>
              /\ UNCHANGED fault
    /\ UNCHANGED <<inv, attempts, result, pathExists, spawnCalls, probes, okAt,
                   lastResp, navs, alerts, childVars>>

\* lines 32-34
ExistsCheck ==
    /\ pc = "exists"
    /\ \E e \in BOOLEAN :
         /\ pathExists' = IF e THEN "yes" ELSE "no"
         /\ pc' = ExistsBranch(e)
         /\ result' = IF ExistsBranch(e) = "returned"
                      THEN ErrResult(NotFoundMsg(server_path))
                      ELSE result
    /\ printed' = <<>>
    /\ UNCHANGED <<inv, server_path, env_vars, attempts, fault, spawnCalls, probes,
                   okAt, lastResp, navs, alerts, childVars>>

\* lines 36-69: the sidecar command, spawn, and the monitoring task
SpawnSidecar ==
    /\ pc = "spawn"
    /\ \E o \in SpawnOutcomes :
         IF o = "ok"
         THEN /\ spawnCalls' = spawnCalls + 1
              /\ handles' = [handles EXCEPT ![inv] = @ + 1]
              /\ childEnv' = [childEnv EXCEPT ![inv] = env_vars]
              /\ monpc' = [monpc EXCEPT ![inv] = "recv"]
              /\ monTasks' = [monTasks EXCEPT ![inv] = @ + 1]
              /\ printed' = <<<<"Node.js sidecar spawned successfully">>>>
              /\ pc' = "loop"
              /\ UNCHANGED fault
         ELSE /\ spawnCalls' = IF o = "spawn" THEN spawnCalls + 1 ELSE spawnCalls
              /\ fault' = o
              /\ pc' = "panicked"
              /\ printed' = <<>>
              /\ UNCHANGED <<handles, childEnv, monpc, monTasks>>
    /\ attempts' = 0
    /\ UNCHANGED <<inv, server_path, env_vars, result, pathExists, probes, okAt,
                   lastResp, navs, alerts, emitted, chan, closed, plog, console>>

LoopRunnableAfterMonitor(m) == m = "ended"

\* lines 51-69: the monitoring task is spawned and its JoinHandle dropped,
\* never awaited: the probe loop runs whatever state m the task is in
LoopRunnable(m) == TRUE

\* lines 75-80: the loop condition, the pacing sleep, attempts += 1 and the GET
LoopHead ==
    /\ pc = "loop"
    /\ LoopRunnable(monpc[inv])
    /\ IF LoopCond(attempts)
       THEN /\ attempts' = attempts + 1
            /\ probes' = probes + 1
            /\ pc' = "await"
       ELSE /\ pc' = "after"
            /\ UNCHANGED <<attempts, probes>>
    /\ printed' = <<>>
    /\ UNCHANGED <<inv, server_path, env_vars, result, fault, pathExists, spawnCalls,
                   okAt, lastResp, navs, alerts, childVars>>

AfterFailedProbeRespawns == "spawn"

AfterFailedProbeEndsLoop == "after"

\* lines 75-94: a probe that did not break leads back to the loop condition
AfterFailedProbe == "loop"

\* lines 80-93: the response of the GET and the match on it
ProbeResponse ==
    /\ pc = "await"
    /\ \E r \in ProbeResults :
         /\ lastResp' = r
         /\ okAt' = IF okAt = 0 /\ r.ok /\ r.status \in 200..299 THEN attempts ELSE okAt
         /\ IF Breaks(r)
            THEN /\ printed' = <<<<"Server is responding on port 3000">>>>
                 /\ pc' = "after"
            ELSE /\ printed' = IF NoteDue(r, attempts)
                               THEN <<<<"Server process running, waiting for HTTP response... (attempt ",
                                        attempts, max_attempts>>>>
                               ELSE <<>>
                 /\ pc' = AfterFailedProbe
    /\ UNCHANGED <<inv, server_path, env_vars, attempts, result, fault, pathExists,
                   spawnCalls, probes, navs, alerts, childVars>>

\* lines 96-99
AfterLoop ==
    /\ pc = "after"
    /\ printed' = IF TimedOut(attempts)
                  THEN <<<<"Timeout reached, but Node.js process is still running. Proceeding anyway...">>>>
                  ELSE <<>>
    /\ pc' = "redirect"
    /\ UNCHANGED <<inv, server_path, env_vars, attempts, result, fault, pathExists,
                   spawnCalls, probes, okAt, lastResp, navs, alerts, childVars>>

RedirectEvalTwice == <<URL, URL>>

\* window.eval("window.location.href = 'http://localhost:3000'")
RedirectEval == <<URL>>

\* line 102
Redirect ==
    /\ pc = "redirect"
    /\ navs' = navs \o RedirectEval
    /\ printed' = <<>>
    /\ pc' = "ret"
    /\ UNCHANGED <<inv, server_path, env_vars, attempts, result, fault, pathExists,
                   spawnCalls, probes, okAt, lastResp, alerts, childVars>>

FinalResultFailsOnTimeout ==
    IF attempts >= max_attempts THEN ErrResult(<<"Timeout", <<>>>>) ELSE OkResult

\* Ok(())
FinalResult == OkResult

\* line 104
Return ==
    /\ pc = "ret"
    /\ result' = FinalResult
    /\ printed' = <<>>
    /\ pc' = "returned"
    /\ UNCHANGED <<inv, server_path, env_vars, attempts, fault, pathExists, spawnCalls,
                   probes, okAt, lastResp, navs, alerts, childVars>>

(* ------------------------------ caller -------------------------------- *)

\* format!("alert('Server startup failed: {}')", e)
AlertScript(m) == <<"alert('Server startup failed: ", m>>

SetupAlertsAlways(r) == <<AlertScript(r.msg)>>

\* lines 117-126: the alert of the Err arm
SetupAlerts(r) == IF r.kind = "Err" THEN <<AlertScript(r.msg)>> ELSE <<>>

\* lines 117-126: what the setup task prints
SetupPrints(r) ==
    IF r.kind = "Err"
    THEN <<<<"Failed to start server: ", r.msg>>>>
    ELSE <<<<"Server started successfully">>>>

\* The caller receives the returned value: the setup task (invocation 1)
\* matches on it; for a UI command it goes back to the front end.
CallerHandle ==
    /\ pc = "returned"
    /\ IF inv = 1
       THEN /\ printed' = SetupPrints(result)
            /\ alerts' = alerts \o SetupAlerts(result)
       ELSE /\ printed' = <<>>
            /\ UNCHANGED alerts
    /\ pc' = "done"
    /\ UNCHANGED <<inv, server_path, env_vars, attempts, result, fault, pathExists,
                   spawnCalls, probes, okAt, lastResp, navs, childVars>>

(* ----------------------- sidecar and its monitor ---------------------- *)

RECURSIVE SumLen(_, _)
SumLen(f, S) ==
    IF S = {} THEN 0
    ELSE LET c == CHOOSE x \in S : TRUE IN Len(f[c]) + SumLen(f, S \ {c})

TotalEmitted == SumLen(emitted, Children)

\* The sidecar sends an event; its payload is its emission number.
ChildEmit(c, maxEv) ==
    /\ c \in spawned
    /\ ~closed[c]
    /\ TotalEmitted < maxEv
    /\ \E k \in EventKinds :
         LET ev == [kind |-> k, line |-> Len(emitted[c]) + 1] IN
           /\ emitted' = [emitted EXCEPT ![c] = Append(@, ev)]
           /\ chan' = [chan EXCEPT ![c] = Append(@, ev)]
    /\ UNCHANGED <<mainVars, handles, childEnv, closed, monpc, monTasks, plog, console>>

\* The sidecar is gone and every sender of the channel is dropped.
ChildClose(c) ==
    /\ c \in spawned
    /\ ~closed[c]
    /\ closed' = [closed EXCEPT ![c] = TRUE]
    /\ UNCHANGED <<mainVars, handles, childEnv, emitted, chan, monpc, monTasks, plog, console>>

ForwardsOnlyStdout(ev) == ev.kind = "Stdout"

\* lines 53-67: the arms of the match that forward; `_ => {}` does nothing
Forwards(ev) == ev.kind \in {"Stdout", "Stderr", "Terminated"}

\* lines 55, 59, 63: println!
MonitorLine(ev) ==
    CASE ev.kind = "Stdout" -> <<"Node.js stdout: ", ev.line>>
      [] ev.kind = "Stderr" -> <<"Node.js stderr: ", ev.line>>
      [] ev.kind = "Terminated" -> <<"Node.js process terminated: ", ev.line>>

\* lines 56, 60, 64: window_clone.eval(&format!(..))
MonitorScript(ev) ==
    CASE ev.kind = "Stdout" -> <<"console.log('Node.js: ", ev.line>>
      [] ev.kind = "Stderr" -> <<"console.error('Node.js error: ", ev.line>>
      [] ev.kind = "Terminated" -> <<"console.error('Node.js terminated: ", ev.line>>

\* line 52: rx.recv().await yields Some(event); lines 53-67: the match
MonitorRecv(c) ==
    /\ monpc[c] = "recv"
    /\ chan[c] # <<>>
    /\ LET ev == Head(chan[c]) IN
         /\ chan' = [chan EXCEPT ![c] = Tail(@)]
         /\ IF Forwards(ev)
            THEN /\ plog' = [plog EXCEPT ![c] = Append(@, MonitorLine(ev))]
                 /\ console' = [console EXCEPT ![c] = Append(@, MonitorScript(ev))]
            ELSE UNCHANGED <<plog, console>>
    /\ UNCHANGED <<mainVars, handles, childEnv, emitted, closed, monpc, monTasks>>

RecvNoneOnClose(q, cl) == cl

\* line 52: rx.recv().await yields None: no event left and every sender dropped
RecvNone(q, cl) == q = <<>> /\ cl

\* line 52: rx.recv().await yields None, the while let loop and the task end
MonitorEnd(c) ==
    /\ monpc[c] = "recv"
    /\ RecvNone(chan[c], closed[c])
    /\ monpc' = [monpc EXCEPT ![c] = "ended"]
    /\ UNCHANGED <<mainVars, handles, childEnv, emitted, chan, closed, monTasks, plog, console>>

(* --------------------------- specification ---------------------------- *)

MainStep ==
    \/ ResolvePath
    \/ ExistsCheck
    \/ SpawnSidecar
    \/ LoopHead
    \/ ProbeResponse
    \/ AfterLoop
    \/ Redirect
    \/ Return
    \/ CallerHandle

NextOf(maxInv, maxEv) ==
    \/ Invoke(maxInv)
    \/ MainStep
    \/ \E c \in Children : ChildEmit(c, maxEv)
    \/ \E c \in Children : ChildClose(c)
    \/ \E c \in Children : MonitorRecv(c)
    \/ \E c \in Children : MonitorEnd(c)

\* the automatic invocation and UI re-invocations
Next == NextOf(MaxInvocations, MaxEvents)

Spec == Init /\ [][Next]_vars

\* one launch (the automatic invocation of setup) with a chattier sidecar
LaunchNext == NextOf(1, MaxLaunchEvents)

LaunchSpec == Init /\ [][LaunchNext]_vars

\* The task running start_server is scheduled and each pacing sleep and each
\* GET completes; nothing is assumed of the sidecar or the monitoring task.
FairLaunchNext == NextOf(1, MaxFairEvents)

FairLaunchSpec == Init /\ [][FairLaunchNext]_vars /\ WF_vars(MainStep)

\* The runtime also keeps scheduling the monitoring task: a recv() that can
\* complete does complete.  Nothing is assumed of the sidecar.
FairMonitorSpec ==
    /\ FairLaunchSpec
    /\ \A c \in Children : WF_vars(MonitorRecv(c)) /\ WF_vars(MonitorEnd(c))

(* ------------------------------ claims -------------------------------- *)

\* the invocation has returned a value to its caller
Returned == pc \in {"returned", "done"}

\* the current invocation created its child
ChildSpawned == inv >= 1 /\ handles[inv] = 1

\* C1: when the resolved entry point does not exist, start_server returns
\* the error "Server file not found at: <server_path>" and the invocation
\* makes no spawn call, creates no child handle and no monitoring task,
\* issues no probe and no redirect.
C1_MissingEntryPointFails ==
    pathExists = "no" =>
        /\ Returned
        /\ result.kind = "Err"
        /\ result.msg = <<"Server file not found at: ", server_path>>
        /\ Len(server_path) >= 3
        /\ spawnCalls = 0
        /\ handles[inv] = 0
        /\ monTasks[inv] = 0
        /\ monpc[inv] = "none"
        /\ probes = 0
        /\ navs = <<>>

C1_Witness ==
    /\ pathExists = "no"
    /\ pc = "done"
    /\ result.msg = <<"Server file not found at: ", <<"opt", "resources", "build", "index.js">>>>

\* C2: an invocation issues at most 30 probes, none after a probe that got a
\* success-range status (k probes when the first such response is on attempt
\* k), and exactly 30 when it leaves the loop without any.
C2_ProbeBudget ==
    /\ probes <= 30
    /\ okAt # 0 => /\ probes = okAt
                   /\ pc \notin {"loop", "await"}
    /\ (ChildSpawned /\ okAt = 0 /\ pc \in {"after", "redirect", "ret", "returned", "done"})
          => probes = 30

C2_Witness ==
    /\ okAt = 4
    /\ probes = 4
    /\ pc = "done"

\* C3: when the child was spawned and none of the 30 probes got a
\* success-range response, start_server returns Ok and the window was told
\* to navigate to http://localhost:3000.
C3_TimeoutStillSucceeds ==
    (ChildSpawned /\ probes = 30 /\ okAt = 0 /\ pc \notin {"loop", "await", "after", "redirect", "ret"})
        => /\ Returned
           /\ result.kind = "Ok"
           /\ navs = <<"http://localhost:3000">>

C3_Witness ==
    /\ ChildSpawned
    /\ probes = 30
    /\ okAt = 0
    /\ lastResp.ok
    /\ pc = "done"
    /\ result.kind = "Ok"

\* C4: when the entry point exists and the OS refuses to create the child,
\* start_server returns an error value to its caller (the invocation does not
\* end without a result) and the spawn is not retried.
C4_SpawnFailureReturnsErr ==
    fault = "spawn" =>
        /\ Returned
        /\ result.kind = "Err"
        /\ spawnCalls = 1

\* C5: when the executable's location or its parent directory cannot be
\* determined, start_server returns an error value to its caller, and no
\* existence check, spawn, probe or redirect happens.
C5_PathFailureReturnsErr ==
    fault \in {"current_exe", "parent"} =>
        /\ Returned
        /\ result.kind = "Err"
        /\ pathExists = "unchecked"
        /\ spawnCalls = 0
        /\ probes = 0
        /\ navs = <<>>

\* the events the monitoring task of child c has received so far
Consumed(c) == SubSeq(emitted[c], 1, Len(emitted[c]) - Len(chan[c]))

\* stdout lines, stderr lines and termination notices of a sequence of events
OutputEvents(q) == SelectSeq(q, LAMBDA e : e.kind \in {"Stdout", "Stderr", "Terminated"})

\* the event kind a printed line reports
KindOfLine(l) ==
    CASE l[1] = "Node.js stdout: " -> "Stdout"
      [] l[1] = "Node.js stderr: " -> "Stderr"
      [] l[1] = "Node.js process terminated: " -> "Terminated"
      [] OTHER -> "?"

\* the event kind a console script reports
KindOfScript(l) ==
    CASE l[1] = "console.log('Node.js: " -> "Stdout"
      [] l[1] = "console.error('Node.js error: " -> "Stderr"
      [] l[1] = "console.error('Node.js terminated: " -> "Terminated"
      [] OTHER -> "?"

\* the printed lines and the console scripts of child c report exactly the
\* events of q, in that order
ReportsExactly(c, q) ==
    /\ Len(plog[c]) = Len(q)
    /\ Len(console[c]) = Len(q)
    /\ \A j \in 1..Len(q) :
         /\ plog[c][j][2] = q[j].line
         /\ console[c][j][2] = q[j].line
         /\ KindOfLine(plog[c][j]) = q[j].kind
         /\ KindOfScript(console[c][j]) = q[j].kind

\* C6 as stated: every event the monitoring task has received, of whatever
\* kind, is reported to process logging and to the window console, in
\* emission order, none dropped, duplicated or reordered.
C6_EveryEventForwarded ==
    \A c \in spawned :
        LET q == Consumed(c) IN
          /\ Len(plog[c]) = Len(q)
          /\ Len(console[c]) = Len(q)
          /\ \A j \in 1..Len(q) :
               /\ plog[c][j][2] = q[j].line
               /\ console[c][j][2] = q[j].line

\* C6 (amended): every stdout line, stderr line and termination notice the
\* monitoring task has received is reported to process logging and to the
\* window console (one println and one eval each), in emission order, none
\* dropped, duplicated or reordered; events of any other kind are received
\* and reported nowhere; the task ends only with the channel closed and
\* drained.
C6_OutputEventsForwarded ==
    \A c \in spawned :
        /\ ReportsExactly(c, OutputEvents(Consumed(c)))
        /\ chan[c] = SubSeq(emitted[c], Len(emitted[c]) - Len(chan[c]) + 1, Len(emitted[c]))
        /\ monpc[c] = "ended" => (closed[c] /\ chan[c] = <<>>)

C6_Witness ==
    \E c \in spawned :
        /\ Len(emitted[c]) = 3
        /\ chan[c] = <<>>
        /\ emitted[c][1].kind = "Stderr"
        /\ emitted[c][2].kind = "Error"
        /\ emitted[c][3].kind = "Terminated"
        /\ Len(plog[c]) = 2
        /\ monpc[c] = "ended"

\* C7: every sidecar, whichever invocation spawned it and whatever happened
\* in earlier invocations, was given PORT=3000 and NODE_ENV=production, and
\* all sidecars were given the same mapping.
C7_ChildEnvFixed ==
    \A c \in spawned :
        /\ {"PORT", "NODE_ENV"} \subseteq DOMAIN childEnv[c]
        /\ childEnv[c]["PORT"] = "3000"
        /\ childEnv[c]["NODE_ENV"] = "production"
        /\ \A d \in spawned : childEnv[d] = childEnv[c]

C7_Witness == spawned = {1, 2}

\* C8: an invocation calls spawn at most once and creates at most one child
\* handle, with one monitoring task per handle; it has its handle exactly
\* when the existence check passed and the spawn step succeeded, also after
\* every probe failed.
C8_OneSpawnPerInvocation ==
    /\ spawnCalls <= 1
    /\ \A c \in Children :
         /\ handles[c] <= 1
         /\ monTasks[c] = handles[c]
         /\ c > inv => handles[c] = 0
    /\ inv >= 1 =>
         (handles[inv] = 1 <=> (pathExists = "yes" /\ fault = "none" /\ pc # "spawn"))

C8_Witness ==
    /\ ChildSpawned
    /\ spawnCalls = 1
    /\ monTasks[inv] = 1
    /\ probes = 30
    /\ okAt = 0
    /\ pc = "after"

\* C9: for the automatic invocation (the first), the window has an alert
\* with the error text exactly when start_server returned an error and the
\* setup task has matched on it; when it returned Ok, also after every probe
\* failed, there is no alert and the setup task only prints.
C9_AlertIffError ==
    inv = 1 =>
        IF pc = "done"
        THEN /\ alerts # <<>> <=> result.kind = "Err"
             /\ result.kind = "Err" =>
                  alerts = <<<<"alert('Server startup failed: ", result.msg>>>>
             /\ result.kind = "Ok" => printed = <<<<"Server started successfully">>>>
        ELSE alerts = <<>>

C9_Witness ==
    /\ inv = 1
    /\ pc = "done"
    /\ result.kind = "Ok"
    /\ probes = 30
    /\ okAt = 0
    /\ alerts = <<>>

\* C10: once the child is spawned and start_server is at its probe loop, it
\* reaches the redirect whatever the sidecar and the monitoring task do or
\* fail to do, given only that start_server's own task keeps being scheduled.
C10_ProbeLoopNotBlocked ==
    (ChildSpawned /\ pc = "loop") ~> (navs = <<"http://localhost:3000">>)

\* the redirect is reached with the sidecar still running and the monitoring
\* task still waiting on events it has not received
C10_Witness ==
    /\ inv = 1
    /\ navs = <<"http://localhost:3000">>
    /\ monpc[1] = "recv"
    /\ ~closed[1]
    /\ Len(chan[1]) = 2

\* C11: the monitoring task ends only with the channel closed and every
\* event sent before the close received (and, if of a forwarded kind,
\* reported); once ended it reports nothing more; and once the channel is
\* closed the task does end, whether or not start_server has returned.
C11_MonitorEndsWhenExhausted ==
    /\ [](\A c \in Children :
            monpc[c] = "ended" =>
               /\ closed[c]
               /\ chan[c] = <<>>
               /\ Len(plog[c]) = Len(OutputEvents(emitted[c]))
               /\ Len(console[c]) = Len(OutputEvents(emitted[c])))
    /\ [][\A c \in Children :
            monpc[c] = "ended" =>
               /\ monpc'[c] = "ended"
               /\ plog'[c] = plog[c]
               /\ console'[c] = console[c]]_vars
    /\ \A c \in Children : (closed[c] /\ monpc[c] = "recv") ~> (monpc[c] = "ended")

\* the task ended after start_server returned, with both events reported
C11_Witness ==
    /\ pc = "done"
    /\ result.kind = "Ok"
    /\ monpc[1] = "ended"
    /\ Len(emitted[1]) = 2
    /\ Len(plog[1]) = 2

\* the timeout warning of line 97
TimeoutLine == <<"Timeout reached, but Node.js process is still running. Proceeding anyway...">>

\* C12: on leaving the probe loop the timeout warning is printed exactly
\* when none of the invocation's probes got a success-range response; a
\* success on the 30th attempt prints no timeout warning.
C12_TimeoutWarningIffNoSuccess ==
    pc = "redirect" =>
        /\ (printed = <<TimeoutLine>>) <=> (okAt = 0)
        /\ okAt # 0 => printed = <<>>

\* the latest step of start_server was a probe that failed (a connection
\* error or a status outside the success range)
ProbeJustFailed == pc = "loop" /\ lastResp # NoResp

\* what C13 says of a failed probe apart from logging: it used one attempt,
\* start_server has returned nothing, the loop is left without a success
\* only after 30 probes, and an invocation that spawned its child never
\* returns an error
FailureOnlyCostsAnAttempt ==
    /\ attempts = probes
    /\ ProbeJustFailed =>
         /\ ~(lastResp.ok /\ lastResp.status \in 200..299)
         /\ attempts >= 1
         /\ result = NoResult
    /\ (ChildSpawned /\ okAt = 0 /\ pc \in {"after", "redirect", "ret", "returned", "done"})
          => probes = 30
    /\ (ChildSpawned /\ Returned) => result.kind = "Ok"

\* C13 as stated: every probe failure costs one attempt, does not end the
\* loop early, never becomes an error, and is logged.
C13_EveryFailureLogged ==
    /\ FailureOnlyCostsAnAttempt
    /\ ProbeJustFailed => printed # <<>>

\* C13 (amended): every probe failure costs one attempt, does not end the
\* loop early and never becomes an error; it is logged exactly when it is a
\* connection error on an attempt that is a multiple of 5 (a non-success
\* status prints nothing, nor does a connection error on another attempt).
C13_FailureLoggedEveryFifth ==
    /\ FailureOnlyCostsAnAttempt
    /\ ProbeJustFailed => (printed # <<>> <=> (~lastResp.ok /\ attempts % 5 = 0))

\* a non-success status on the 5th attempt: counted, silent, loop goes on
C13_Witness ==
    /\ ProbeJustFailed
    /\ lastResp.ok
    /\ lastResp.status = 404
    /\ attempts = 5
    /\ printed = <<>>

\* a progress note of line 90
IsNote(l) == l[1] = "Server process running, waiting for HTTP response... (attempt "

\* C14: a step of start_server prints a progress note exactly when it is
\* the handling of a connection error on attempt n with n a multiple of 5;
\* the note is then the only line printed, n is in {5, 10, 15, 20, 25, 30}
\* and the note reports n (of 30).
C14_NoteOnFifthConnError ==
    /\ (\E j \in 1..Len(printed) : IsNote(printed[j]))
          <=> (ProbeJustFailed /\ ~lastResp.ok /\ attempts % 5 = 0)
    /\ (\E j \in 1..Len(printed) : IsNote(printed[j])) =>
          /\ attempts \in {5, 10, 15, 20, 25, 30}
          /\ printed = <<<<"Server process running, waiting for HTTP response... (attempt ",
                           attempts, 30>>>>

\* the connection error of the 30th attempt is noted as attempt 30
C14_Witness ==
    /\ ProbeJustFailed
    /\ ~lastResp.ok
    /\ attempts = 30
    /\ printed = <<<<"Server process running, waiting for HTTP response... (attempt ", 30, 30>>>>

\* the order of the steps of the current invocation, as seen in one state
StepsInOrder ==
    /\ probes > 0 => ChildSpawned
    /\ (inv >= 1 /\ spawnCalls > 0) => pathExists = "yes"
    /\ Len(navs) <= 1
    /\ navs # <<>> =>
         /\ navs = <<"http://localhost:3000">>
         /\ pc \in {"ret", "returned", "done"}
         /\ ChildSpawned
         /\ probes >= 1
         /\ probes = attempts
         /\ lastResp # NoResp
    /\ result.kind = "Ok" => (navs # <<>> /\ Returned)
    /\ result.kind = "Err" => navs = <<>>
    /\ pc \in {"resolve", "exists", "spawn", "loop", "await", "after", "redirect", "panicked"}
          => (navs = <<>> /\ result = NoResult)

\* C15: within an invocation a probe is issued only after the spawn, the
\* spawn only after a passed existence check, and the redirect only after
\* the last probe: once it is issued the invocation issues no probe, no
\* spawn and no second redirect; an invocation that returned Ok issued the
\* redirect exactly once before returning, one that returned an error or
\* has not left the loop never did.
C15_RedirectOnceAfterProbes ==
    /\ []StepsInOrder
    /\ [][(navs # <<>> /\ inv' = inv) =>
            /\ probes' = probes
            /\ spawnCalls' = spawnCalls
            /\ navs' = navs
            /\ pc' \in {"returned", "done"}]_mainVars

\* the redirect is out, after 30 probes, and start_server has not returned yet
C15_Witness ==
    /\ navs = <<"http://localhost:3000">>
    /\ probes = 30
    /\ pc = "ret"
    /\ result = NoResult

\* C16: every invocation of start_server eventually returns.  With each
\* pacing wait and each probe completing, that is: an invocation that has
\* not returned yet always has a next step to take, and takes at most 30
\* turns of the probe loop.
C16_EveryInvocationReturns ==
    inv >= 1 => (Returned \/ (ENABLED MainStep /\ probes <= 30))

\* C16, for the invocations that reach the probe loop: with each pacing wait
\* and each probe completing, the invocation returns, whatever the probe
\* outcomes, the sidecar and the monitoring task do.
C16_ProbeLoopReturns ==
    (ChildSpawned /\ pc \in {"loop", "await"}) ~> (Returned /\ probes <= 30)

====
